---- MODULE Spec2Model ----
(***************************************************************************)
(* The APIList entity of models/api_list.py: one table of API-key rows,    *)
(* a lookup by key and a creation operation that inserts, commits and      *)
(* refreshes through a SQLAlchemy session handed in by the caller.         *)
(*                                                                         *)
(* A nullable value (Python None, SQL NULL) is the empty sequence and a    *)
(* present value v is <<v>>.  Text that the program parses (the value of   *)
(* the FREE_TOKENS variable) is a sequence of one-character strings.       *)
(***************************************************************************)
EXTENDS Integers, Sequences, FiniteSets, TLC

VARIABLES
    env,          \* FREE_TOKENS of the process environment: <<>> unset, else <<text>>
    now,          \* the wall clock
    created_at_default, \* the scalar default of the created_at column (line 40)
    store,        \* the committed rows of table api_list
    nextId,       \* the store's next primary key
    insertedAt,   \* history: row id -> the clock when the row was inserted
    sess,         \* per caller, the state of its session's transaction
    last,         \* history: the last completed call, its inputs and its result
    pc,           \* per caller, the position inside a stepwise create_api_entry
    cur,          \* per caller, the object (pending) or row (flushed) in flight
    duel          \* history: a pair of overlapping creations of one key

vars == <<env, now, created_at_default, store, nextId, insertedAt, sess, last,
          pc, cur, duel>>

----------------------------------------------------------------------------
(* Bounds and input sets *)

MaxClock == 2

Callers == {"a", "b"}
\* the caller whose calls are taken one whole call at a time
SeqCallers == {"a"}
Other(c) == CHOOSE d \in Callers : d # c

None == << >>
Some(v) == <<v>>

\* rows of the users table (external collaborator); owner 2 references no user
Users == {1}
OwnerIds == {1, 2}
\* two keys that differ only in case
Keys == {"k", "K"}
Labels == {None, Some("L")}
InstructionsIn == {None, Some("i")}
TokenLimits == {None, Some(0), Some(5)}
\* FREE_TOKENS: unset, a numeral, a malformed value
EnvValues == {None, Some(<<"1", "2">>), Some(<<"x">>)}

----------------------------------------------------------------------------
(* int(str): decimal numerals parse, anything else raises ValueError *)

DigitChars == <<"0", "1", "2", "3", "4", "5", "6", "7", "8", "9">>

IsDigit(ch) == \E i \in 1..Len(DigitChars) : DigitChars[i] = ch

DigitVal(ch) == (CHOOSE i \in 1..Len(DigitChars) : DigitChars[i] = ch) - 1

IsNumeral(s) == Len(s) > 0 /\ \A i \in 1..Len(s) : IsDigit(s[i])

RECURSIVE ParseInt(_)
ParseInt(s) ==
    IF Len(s) = 0 THEN 0
    ELSE ParseInt(SubSeq(s, 1, Len(s) - 1)) * 10 + DigitVal(s[Len(s)])

\* os.getenv("FREE_TOKENS", default)
Getenv(default) == IF env = None THEN default ELSE env[1]

\* Python truthiness of an optional integer: None and 0 are falsy
Truthy(v) == v # None /\ v[1] # 0

\* the fallback text of line 93
FreeTokensFallback == <<"1", "0", "0", "0">>

\* the fallback number of lines 42 and 44
SchemaFreeTokens == 50000

\* (variant: the fallback of the column defaults taken for the one of line 93)
ResolveTokenLimitSchemaFallback(token_limit) ==
    IF Truthy(token_limit) THEN [ok |-> TRUE, val |-> token_limit[1]]
    ELSE IF env = None THEN [ok |-> TRUE, val |-> SchemaFreeTokens]
    ELSE IF IsNumeral(env[1]) THEN [ok |-> TRUE, val |-> ParseInt(env[1])]
    ELSE [ok |-> FALSE, val |-> 0]

\* token_limit or int(os.getenv("FREE_TOKENS", "1000"))
ResolveTokenLimit(token_limit) ==
    IF Truthy(token_limit) THEN [ok |-> TRUE, val |-> token_limit[1]]
    ELSE LET text == Getenv(FreeTokensFallback)
         IN  IF IsNumeral(text) THEN [ok |-> TRUE, val |-> ParseInt(text)]
             ELSE [ok |-> FALSE, val |-> 0]

----------------------------------------------------------------------------
(* The entity: construction, column defaults, the table's constraints *)

Columns == {"id", "label", "main_table_user_id", "api_key", "instructions",
            "created_at", "last_used_at", "total_tokens", "tokens_used",
            "tokens_remaining", "token_limit_per_day"}

\* (variant: the constructor without the copy to the two counters)
APIList_init_NoSync(kwargs) == kwargs

\* APIList.__init__(**kwargs): a supplied token_limit_per_day is copied to
\* tokens_remaining and total_tokens before the attributes are set
APIList_init(kwargs) ==
    IF "token_limit_per_day" \in DOMAIN kwargs
    THEN [f \in DOMAIN kwargs \cup {"tokens_remaining", "total_tokens"} |->
            IF f \in {"tokens_remaining", "total_tokens"}
            THEN kwargs["token_limit_per_day"]
            ELSE kwargs[f]]
    ELSE kwargs

\* the cls(...) call of create_api_entry; lim is the resolved token limit
NewEntry(main_table_user_id, api_key, instructions, label, lim) ==
    APIList_init([f \in {"main_table_user_id", "label", "api_key", "instructions",
                         "token_limit_per_day"} |->
        CASE f = "main_table_user_id" -> Some(main_table_user_id)
          [] f = "label" -> label
          [] f = "api_key" -> Some(api_key)
          [] f = "instructions" -> instructions
          [] f = "token_limit_per_day" -> Some(lim)])

\* (variant: a callable default, evaluated at each insert)
DefaultCreatedAtPerInsert == Some(now)

\* default=datetime.now(timezone.utc): a value computed when the class body
\* runs, not a callable evaluated per insert
DefaultCreatedAt == created_at_default

\* default=os.getenv("FREE_TOKENS", 50000): the number when the variable is
\* unset, else its text, which the store coerces to an integer
TokensDefaultUsable == env = None \/ IsNumeral(env[1])

DefaultTokens ==
    IF env = None THEN Some(SchemaFreeTokens)
    ELSE IF IsNumeral(env[1]) THEN Some(ParseInt(env[1])) ELSE None

ColumnDefault(f) ==
    CASE f = "created_at" -> DefaultCreatedAt
      [] f = "total_tokens" -> DefaultTokens
      [] f = "tokens_used" -> Some(0)
      [] f = "tokens_remaining" -> DefaultTokens
      [] OTHER -> None

\* an attribute that is absent or None takes the column's default
Unset(obj, f) == f \notin DOMAIN obj \/ obj[f] = None

\* the row the INSERT of a pending object writes, under primary key id
NewRow(obj, id) ==
    [f \in Columns |->
        IF f = "id" THEN Some(id)
        ELSE IF Unset(obj, f) THEN ColumnDefault(f)
        ELSE obj[f]]

NotNullColumns == {"id", "label", "main_table_user_id", "api_key", "created_at"}

\* (variant: the column without its unique index)
UniqueOkUnchecked(row, rows) == TRUE

\* api_key: unique=True
UniqueOk(row, rows) == \A r \in rows : r.api_key # row.api_key

\* the store's answer to the INSERT of row into committed rows: a malformed
\* default, then NOT NULL, then the unique index, then the foreign key (a
\* store that enforces the declared ForeignKey)
InsertOutcome(obj, row, rows) ==
    IF \E f \in {"total_tokens", "tokens_remaining"} :
           Unset(obj, f) /\ ~TokensDefaultUsable
    THEN "DataError"
    ELSE IF \E f \in NotNullColumns : row[f] = None THEN "NotNullViolation"
    ELSE IF ~UniqueOk(row, rows) THEN "UniqueViolation"
    ELSE IF row.main_table_user_id[1] \notin Users THEN "ForeignKeyViolation"
    ELSE "ok"

\* Query.first(): the first row of the result (taken in primary-key order;
\* the query states no order, which matters only if several rows match)
First(rows) ==
    IF rows = {} THEN None
    ELSE Some(CHOOSE r \in rows : \A q \in rows : r.id[1] <= q.id[1])

\* (variant: keys compared after case folding)
Lower(text) == IF text = "K" THEN "k" ELSE text

get_by_api_key_CaseFolded(rows, api_key) ==
    First({r \in rows : Lower(r.api_key[1]) = Lower(api_key)})

\* db.query(cls).filter(cls.api_key == api_key).first()
get_by_api_key(rows, api_key) ==
    First({r \in rows : r.api_key = Some(api_key)})

\* db.refresh(api_entry): the row is read again by primary key
Refreshed(rows, id) == First({r \in rows : r.id = Some(id)})

----------------------------------------------------------------------------
(* State *)

NoCall ==
    [op |-> "none", caller |-> "a", owner |-> 0, key |-> "", instructions |-> None,
     label |-> None, token_limit |-> None, sess_before |-> "active", stored_before |-> FALSE,
     store_changed |-> FALSE, outcome |-> "none", ret |-> None]

NoDuel == [key |-> "", labelled |-> FALSE, res |-> [c \in Callers |-> "none"]]

Idle == [c \in Callers |-> "idle"]
Nothing == [c \in Callers |-> None]

Init ==
    /\ env \in EnvValues
    /\ now = 0
    /\ created_at_default = Some(now)
    /\ store = {}
    /\ nextId = 1
    /\ insertedAt = << >>
    /\ sess = [c \in Callers |-> "active"]
    /\ last = NoCall
    /\ pc = Idle
    /\ cur = Nothing
    /\ duel = NoDuel

\* errors the store raises while the session flushes: the flush rolls the
\* transaction back and leaves the session unusable until Session.rollback()
StoreErrors == {"DataError", "NotNullViolation", "UniqueViolation", "ForeignKeyViolation"}

\* what a create_api_entry call of caller c ends with, from the present state
CreateOutcome(c, lim, obj, row) ==
    IF ~lim.ok THEN "ValueError"
    ELSE IF sess[c] # "active" THEN "PendingRollbackError"
    ELSE InsertOutcome(obj, row, store)

----------------------------------------------------------------------------
(* The operations, each call taken as a whole *)

\* (each intermediate value is bound once: \E x \in {e})
create_api_entry(c, main_table_user_id, api_key, instructions, label, token_limit) ==
    \E lim \in {ResolveTokenLimit(token_limit)} :
    \E obj \in {NewEntry(main_table_user_id, api_key, instructions, label, lim.val)} :
    \E row \in {NewRow(obj, nextId)} :
    \E outcome \in {CreateOutcome(c, lim, obj, row)} :
        /\ pc[c] = "idle"
        /\ IF outcome = "ok"
           THEN /\ store' = store \cup {row}
                /\ nextId' = nextId + 1
                /\ insertedAt' = insertedAt @@ (nextId :> now)
                /\ sess' = sess
           ELSE /\ UNCHANGED <<store, nextId, insertedAt>>
                /\ sess' = IF outcome \in StoreErrors
                           THEN [sess EXCEPT ![c] = "deactive"]
                           ELSE sess
        /\ last' = [op |-> "create", caller |-> c, owner |-> main_table_user_id,
                    key |-> api_key, instructions |-> instructions, label |-> label,
                    token_limit |-> token_limit, sess_before |-> sess[c],
                    stored_before |-> \E r \in store : r.api_key = Some(api_key),
                    store_changed |-> store' # store, outcome |-> outcome,
                    ret |-> IF outcome = "ok" THEN Refreshed(store', nextId) ELSE None]
        /\ UNCHANGED <<env, now, created_at_default, pc, cur, duel>>

\* what a lookup of caller c ends with, from the present state: the query
\* needs a usable transaction
LookupOutcome(c) == IF sess[c] = "active" THEN "ok" ELSE "PendingRollbackError"

lookup_by_key(c, api_key) ==
    LET outcome == LookupOutcome(c)
    IN  /\ pc[c] = "idle"
        /\ last' = [op |-> "lookup", caller |-> c, owner |-> 0, key |-> api_key,
                    instructions |-> None, label |-> None, token_limit |-> None,
                    sess_before |-> sess[c],
                    stored_before |-> \E r \in store : r.api_key = Some(api_key),
                    store_changed |-> FALSE, outcome |-> outcome,
                    ret |-> IF outcome = "ok" THEN get_by_api_key(store, api_key)
                            ELSE None]
        /\ UNCHANGED <<env, now, created_at_default, store, nextId, insertedAt,
                       sess, pc, cur, duel>>

\* the caller's Session.rollback() after a failed commit
Rollback(c) ==
    /\ pc[c] = "idle"
    /\ sess[c] = "deactive"
    /\ sess' = [sess EXCEPT ![c] = "active"]
    /\ UNCHANGED <<env, now, created_at_default, store, nextId, insertedAt, last,
                   pc, cur, duel>>

Tick ==
    /\ now < MaxClock
    /\ now' = now + 1
    /\ UNCHANGED <<env, created_at_default, store, nextId, insertedAt, sess, last,
                   pc, cur, duel>>

Create ==
    \E c \in SeqCallers, o \in OwnerIds, k \in Keys, i \in InstructionsIn,
       l \in Labels, t \in TokenLimits : create_api_entry(c, o, k, i, l, t)

Lookup == \E c \in SeqCallers, k \in Keys : lookup_by_key(c, k)

CallerRollback == \E c \in SeqCallers : Rollback(c)

Next == Create \/ Lookup \/ CallerRollback

Spec == Init /\ [][Next]_vars

----------------------------------------------------------------------------
(* The same creation with the clock running between the calls *)

TimedCreate ==
    \E c \in SeqCallers, k \in Keys, t \in TokenLimits :
        create_api_entry(c, 1, k, None, Some("L"), t)

ClockNext == TimedCreate \/ CallerRollback \/ Tick

ClockSpec == Init /\ [][ClockNext]_vars

----------------------------------------------------------------------------
(* create_api_entry step by step, two callers each with its own session.   *)
(* A lookup in between reads committed rows and changes neither the store  *)
(* nor a session: here it is a stuttering step.                            *)

ConcTokenLimits == {None, Some(5)}

\* another transaction holds an uncommitted row with the same key: the
\* store makes the INSERT wait until that transaction ends
Blocked(c, row) ==
    \E d \in Callers \ {c} : pc[d] = "flushed" /\ cur[d][1].api_key = row.api_key

\* the record of the pair (history): a call of c begins while the other
\* caller's creation of the same key is in flight, the key is not stored,
\* both owners exist and both sessions are usable
Overlaps(c, main_table_user_id, api_key) ==
    LET d == Other(c)
    IN  /\ pc[d] \in {"commit", "flushed"}
        /\ cur[d][1].api_key = Some(api_key)
        /\ \A r \in store : r.api_key # Some(api_key)
        /\ main_table_user_id \in Users
        /\ cur[d][1].main_table_user_id[1] \in Users
        /\ sess[c] = "active" /\ sess[d] = "active"

Ended(c, outcome) ==
    IF duel.res[c] = "running" THEN [duel EXCEPT !.res[c] = outcome] ELSE duel

\* lines 88-95: the limit is resolved, the object constructed and added
create_call(c, main_table_user_id, api_key, instructions, label, token_limit) ==
    \E lim \in {ResolveTokenLimit(token_limit)} :
        /\ pc[c] = "idle"
        /\ IF lim.ok
           THEN /\ pc' = [pc EXCEPT ![c] = "commit"]
                /\ cur' = [cur EXCEPT ![c] =
                     Some(NewEntry(main_table_user_id, api_key, instructions, label,
                                   lim.val))]
                /\ duel' = IF Overlaps(c, main_table_user_id, api_key)
                           THEN [key |-> api_key,
                                 labelled |-> label # None /\ cur[Other(c)][1].label # None,
                                 res |-> [x \in Callers |-> "running"]]
                           ELSE NoDuel
           ELSE /\ duel' = NoDuel
                /\ UNCHANGED <<pc, cur>>
        /\ UNCHANGED <<env, now, created_at_default, store, nextId, insertedAt,
                       sess, last>>

\* line 96, first half: db.commit() flushes the pending object (INSERT)
commit_flush(c) ==
    /\ pc[c] = "commit"
    /\ \E row \in {NewRow(cur[c][1], nextId)} :
       \E outcome \in {IF sess[c] # "active" THEN "PendingRollbackError"
                       ELSE InsertOutcome(cur[c][1], row, store)} :
          /\ outcome \in {"PendingRollbackError", "DataError", "NotNullViolation",
                          "UniqueViolation"} \/ ~Blocked(c, row)
          /\ IF outcome = "ok"
             THEN /\ pc' = [pc EXCEPT ![c] = "flushed"]
                  /\ cur' = [cur EXCEPT ![c] = Some(row)]
                  /\ nextId' = nextId + 1
                  /\ insertedAt' = insertedAt @@ (nextId :> now)
                  /\ UNCHANGED <<sess, duel>>
             ELSE /\ pc' = [pc EXCEPT ![c] = "idle"]
                  /\ cur' = [cur EXCEPT ![c] = None]
                  /\ sess' = IF outcome \in StoreErrors
                             THEN [sess EXCEPT ![c] = "deactive"]
                             ELSE sess
                  /\ duel' = Ended(c, outcome)
                  /\ UNCHANGED <<nextId, insertedAt>>
    /\ UNCHANGED <<env, now, created_at_default, store, last>>

\* line 96, second half: the transaction commits
commit_commit(c) ==
    /\ pc[c] = "flushed"
    /\ store' = store \cup {cur[c][1]}
    /\ pc' = [pc EXCEPT ![c] = "refresh"]
    /\ UNCHANGED <<env, now, created_at_default, nextId, insertedAt, sess, last,
                   cur, duel>>

\* lines 97-98: the row is read again and returned
create_return(c) ==
    /\ pc[c] = "refresh"
    /\ Refreshed(store, cur[c][1].id[1]) = cur[c]
    /\ pc' = [pc EXCEPT ![c] = "idle"]
    /\ cur' = [cur EXCEPT ![c] = None]
    /\ duel' = Ended(c, "ok")
    /\ UNCHANGED <<env, now, created_at_default, store, nextId, insertedAt, sess,
                   last>>

ConcCall ==
    \E c \in Callers, o \in OwnerIds, k \in Keys, l \in Labels,
       t \in ConcTokenLimits : create_call(c, o, k, None, l, t)

ConcFlush == \E c \in Callers : commit_flush(c)

ConcCommit == \E c \in Callers : commit_commit(c)

ConcReturn == \E c \in Callers : create_return(c)

ConcRollback == \E c \in Callers : Rollback(c)

ConcNext == ConcCall \/ ConcFlush \/ ConcCommit \/ ConcReturn \/ ConcRollback

ConcSpec == Init /\ [][ConcNext]_vars

----------------------------------------------------------------------------
(* Properties of the operations taken whole (Spec) *)

\* the token limit of a call resolves: it is supplied and non-zero, or
\* FREE_TOKENS is unset or a numeral
ConfigResolves(token_limit) ==
    Truthy(token_limit) \/ env = None \/ IsNumeral(env[1])

\* the last call was a creation with valid inputs on a usable session
ValidCreate ==
    /\ last.op = "create"
    /\ last.owner \in Users
    /\ ~last.stored_before
    /\ last.sess_before = "active"
    /\ ConfigResolves(last.token_limit)

\* C1: after a creation with valid inputs, whatever optional inputs were
\* omitted, a lookup of the same key by the same caller returns a record
\* whose owner, label and instructions are the ones passed in.
C1_RoundTrip ==
    ValidCreate =>
        LET found == get_by_api_key(store, last.key)
        IN  /\ LookupOutcome(last.caller) = "ok"
            /\ found # None
            /\ found[1].main_table_user_id = Some(last.owner)
            /\ found[1].label = last.label
            /\ found[1].instructions = last.instructions

\* the same with a label supplied
RoundTripLabelled ==
    (ValidCreate /\ last.label # None) =>
        LET found == get_by_api_key(store, last.key)
        IN  /\ LookupOutcome(last.caller) = "ok"
            /\ found # None
            /\ found[1].main_table_user_id = Some(last.owner)
            /\ found[1].label = last.label
            /\ found[1].instructions = last.instructions

\* C2: a creation given a token_limit, 0 included, yields a record whose
\* total_tokens and tokens_remaining are that limit.
C2_ExplicitLimit ==
    (last.op = "create" /\ last.token_limit # None /\ last.outcome = "ok") =>
        /\ last.ret[1].total_tokens = last.token_limit
        /\ last.ret[1].tokens_remaining = last.token_limit

\* the same for the limits Python takes as true
ExplicitLimitNonZero ==
    (last.op = "create" /\ Truthy(last.token_limit) /\ last.outcome = "ok") =>
        /\ last.ret[1].total_tokens = last.token_limit
        /\ last.ret[1].tokens_remaining = last.token_limit

\* C3: a creation with token_limit omitted yields a record whose total_tokens
\* and tokens_remaining are the integer value of FREE_TOKENS, or 1000 when
\* it is unset, and whose tokens_used is 0.
C3_DefaultPropagation ==
    (last.op = "create" /\ last.token_limit = None /\ last.outcome = "ok") =>
        /\ env = None => last.ret[1].total_tokens = Some(1000)
        /\ env = Some(<<"1", "2">>) => last.ret[1].total_tokens = Some(12)
        /\ env \in {None, Some(<<"1", "2">>)}
        /\ last.ret[1].tokens_remaining = last.ret[1].total_tokens
        /\ last.ret[1].tokens_used = Some(0)

C3_Witness ==
    /\ last.op = "create" /\ last.token_limit = None /\ last.outcome = "ok"
    /\ env # None
    /\ last.ret[1].total_tokens = Some(12)

\* C4: a creation with an existing owner and a key not yet stored succeeds
\* and stores a record, whichever of instructions, label and token_limit
\* are omitted.
C4_OptionalInputs ==
    ValidCreate =>
        /\ last.outcome = "ok"
        /\ last.ret # None
        /\ last.ret[1] \in store

\* C5: a creation whose key is already stored fails with the uniqueness
\* violation and leaves the committed rows as they were.
C5_DuplicateKey ==
    (/\ last.op = "create"
     /\ last.stored_before
     /\ last.sess_before = "active"
     /\ ConfigResolves(last.token_limit)) =>
        /\ last.outcome = "UniqueViolation"
        /\ ~last.store_changed

\* the same with a label supplied; and in every case the call fails and the
\* committed rows stay
DuplicateKeyLabelled ==
    /\ (last.op = "create" /\ last.stored_before) =>
          (last.outcome # "ok" /\ ~last.store_changed)
    /\ (/\ last.op = "create"
        /\ last.stored_before
        /\ last.sess_before = "active"
        /\ ConfigResolves(last.token_limit)
        /\ last.label # None) => last.outcome = "UniqueViolation"

\* what a lookup of key must return from the committed rows
LookupAnswerOk(key, ret) ==
    LET matches == {r \in store : r.api_key = Some(key)}
    IN  /\ Cardinality(matches) <= 1
        /\ matches # {} => (ret # None /\ ret[1] \in matches)
        /\ matches = {} => ret = None

\* C6 as stated: in every reachable state a lookup returns the record whose
\* key is exactly the given one, or not-found, and never raises.
C6_LookupNeverRaises ==
    last.op = "lookup" =>
        (last.outcome = "ok" /\ LookupAnswerOk(last.key, last.ret))

\* C6 amended: on a session with no failed commit awaiting the caller's
\* rollback a lookup returns the record whose key is exactly the given one,
\* or not-found; on a session left by a failed commit it raises.
C6_LookupOnUsableSession ==
    last.op = "lookup" =>
        IF last.sess_before = "active"
        THEN last.outcome = "ok" /\ LookupAnswerOk(last.key, last.ret)
        ELSE last.outcome = "PendingRollbackError"

C6_Witness ==
    /\ last.op = "lookup" /\ last.outcome = "ok"
    /\ last.key = "K" /\ last.ret = None
    /\ \E r \in store : r.api_key = Some("k")

\* C10: every stored record has total_tokens = tokens_remaining =
\* token_limit_per_day, tokens_used = 0 and last_used_at unset, and a stored
\* record is never changed or removed by a later call.
CounterInv ==
    \A r \in store :
        /\ r.token_limit_per_day # None
        /\ r.total_tokens = r.token_limit_per_day
        /\ r.tokens_remaining = r.token_limit_per_day
        /\ r.tokens_used = Some(0)
        /\ r.last_used_at = None

C10_CountersAndPermanence == []CounterInv /\ [][store \subseteq store']_vars

C10_Witness ==
    /\ Cardinality(store) = 2
    /\ last.op = "create" /\ last.outcome = "UniqueViolation"

----------------------------------------------------------------------------
(* The creation timestamp (ClockSpec) *)

----------------------------------------------------------------------------
(* Concurrent creation (ConcSpec) *)

\* C7: in every reachable state, under every interleaving of the callers'
\* steps, no two stored records have the same api_key.
C7_UniqueKeys ==
    \A r1, r2 \in store : r1.api_key = r2.api_key => r1 = r2

C7_Witness ==
    /\ Cardinality(store) = 1
    /\ \E c \in Callers :
          /\ pc[c] = "idle" /\ sess[c] = "deactive"
          /\ duel.res[c] = "UniqueViolation"

DuelOver == \A c \in Callers : duel.res[c] \notin {"none", "running"}

\* C8: of two creations of one key that overlap, with existing owners,
\* exactly one succeeds and the other receives the uniqueness violation.
C8_ExactlyOneWins ==
    DuelOver =>
        \E c \in Callers :
            duel.res[c] = "ok" /\ duel.res[Other(c)] = "UniqueViolation"

\* the same when both calls supply a label
ExactlyOneWinsLabelled ==
    (DuelOver /\ duel.labelled) =>
        \E c \in Callers :
            duel.res[c] = "ok" /\ duel.res[Other(c)] = "UniqueViolation"

====
